---- MODULE Spec2Model ----
(***************************************************************************)
(* Termo: a multi-board word guessing game (src/App.tsx).  The model is    *)
(* the state of the App component and one action per input event; every    *)
(* action is the whole React handler, together with the effects that the   *)
(* state change triggers before the next event is delivered.               *)
(*                                                                         *)
(* WORD_LENGTH, WORDS and VALID_GUESSES come from ./constants, which fixes *)
(* them per build: Init chooses the word length and the vocabulary is a    *)
(* small one of that length.                                               *)
(*                                                                         *)
(* Indices are 0-based as in the source; At(s, i) reads a 0-based index of *)
(* a TLA+ sequence.  A word is a sequence of one-character strings, the    *)
(* empty slot of the guess buffer is the empty string.                     *)
(***************************************************************************)
EXTENDS Integers, Sequences, FiniteSets, TLC

VARIABLES
    WORD_LENGTH,          \* imported from ./constants: set by Init, never changed
    level, score, hintCost,
    solutions, guesses,
    currentGuess, activeTileIndex,
    gameStatus, solvedIndices,
    revealedHints, hintedSolutionIndex,
    shakeRow, toast,
    validGuessesSet,
    hintsGranted,         \* history: hints granted since the level was initialised
    toastTimers, shakeTimers,      \* the pending single-shot timers, when they are counted
    drawnSolutions, initPc,        \* newSolutions and the position of a running initGame
    fetchPending, isDictionaryLoaded,
    keyStatuses,                   \* the keyboard aggregate of the last render
    sGuess, sSolution, sStatuses   \* arguments and result of the last Scorer call

gameVars == <<level, score, hintCost, solutions, guesses, currentGuess,
              activeTileIndex, gameStatus, solvedIndices, revealedHints,
              hintedSolutionIndex, shakeRow, toast, validGuessesSet, hintsGranted>>
timerVars == <<toastTimers, shakeTimers>>
scorerVars == <<sGuess, sSolution, sStatuses>>
\* what the handlers of the game never write
sideVars == <<drawnSolutions, initPc, fetchPending, isDictionaryLoaded, keyStatuses, scorerVars>>
vars == <<WORD_LENGTH, gameVars, timerVars, sideVars>>

----------------------------------------------------------------------------
(* Bounds of the model *)

\* word length of the build whose game is explored
GameWordLength == 2
\* the level is not advanced beyond this
MaxLevel == 1
\* a submission is explored only while the score stays within this
MaxScore == 120

----------------------------------------------------------------------------
(* Helpers for the JavaScript values *)

Null == -1
EmptyMap == [x \in {} |-> ""]
At(s, i) == s[i + 1]
Fill(n, v) == [i \in 1..n |-> v]
Max(a, b) == IF a >= b THEN a ELSE b
Min(a, b) == IF a <= b THEN a ELSE b
Includes(s, v) == \E i \in 1..Len(s) : s[i] = v
NotEmptySlot(c) == c # ""
\* Array.join(""): the characters of the non-empty entries, in order
Join(s) == SelectSeq(s, NotEmptySlot)
\* findIndex(pred): the lowest 0-based index whose entry is in the set, or -1
FindIndex(s, good) ==
    IF \E i \in 1..Len(s) : s[i] \in good
    THEN (CHOOSE i \in 1..Len(s) : s[i] \in good /\ \A j \in 1..(i - 1) : s[j] \notin good) - 1
    ELSE -1
Every(s) == \A i \in 1..Len(s) : s[i]

----------------------------------------------------------------------------
(* The vocabulary of ./constants, for a build of word length n *)

\* the keys the keyboard listener lets through, restricted to two letters
Letters == {"A", "B"}
Word(n, k) == [i \in 1..n |-> IF i = k THEN "B" ELSE "A"]
\* the candidate solutions; the list also holds a short word and a two-word
\* entry, which initGame filters out
WORDS == <<Word(WORD_LENGTH, 1), Word(WORD_LENGTH, 2),
           Fill(WORD_LENGTH - 1, "A"),
           [i \in 1..WORD_LENGTH |-> IF i = 2 THEN " " ELSE "A"]>>
VALID_GUESSES == WORDS \o <<Fill(WORD_LENGTH + 1, "B")>>

\* mutant: the vocabulary is not filtered
EligibleAny(w) == Len(w) > 0
Eligible(w) == Len(w) = WORD_LENGTH /\ ~Includes(w, " ")
validWords == SelectSeq(WORDS, Eligible)
InitialValidGuesses == {VALID_GUESSES[i] : i \in {j \in 1..Len(VALID_GUESSES) : Eligible(VALID_GUESSES[j])}}

----------------------------------------------------------------------------
(* Scorer: getGuessStatuses *)

\* Pass 1: an exact match is correct and takes the solution's letter
Pass1Statuses(guess, solutionWord) ==
    [i \in 1..WORD_LENGTH |->
        IF i <= Len(guess) /\ i <= Len(solutionWord) /\ guess[i] = solutionWord[i]
        THEN "correct" ELSE "absent"]
Pass1Taken(guess, solutionWord) ==
    [i \in 1..Len(solutionWord) |-> i <= Len(guess) /\ guess[i] = solutionWord[i]]

\* mutant: a taken letter of the solution is found again
IndexOfCharInSolutionTakenAgain(letter, solutionWord, taken) ==
    IF \E j \in 1..Len(solutionWord) : solutionWord[j] = letter
    THEN CHOOSE j \in 1..Len(solutionWord) :
            /\ solutionWord[j] = letter
            /\ \A k \in 1..(j - 1) : solutionWord[k] # letter
    ELSE 0
\* splitSolution.findIndex(sLetter === letter && !solutionCharsTaken[index]), 1-based, 0 if none
IndexOfCharInSolution(letter, solutionWord, taken) ==
    IF \E j \in 1..Len(solutionWord) : solutionWord[j] = letter /\ ~taken[j]
    THEN CHOOSE j \in 1..Len(solutionWord) :
            /\ solutionWord[j] = letter /\ ~taken[j]
            /\ \A k \in 1..(j - 1) : ~(solutionWord[k] = letter /\ ~taken[k])
    ELSE 0

\* Pass 2, from guess position i on: a letter that is not correct is present
\* when the solution still holds an untaken copy of it, which it then takes
RECURSIVE Pass2(_, _, _, _, _)
Pass2(i, guess, solutionWord, statuses, taken) ==
    IF i > Len(guess) THEN statuses
    ELSE IF statuses[i] # "correct"
              /\ IndexOfCharInSolution(guess[i], solutionWord, taken) > 0
         THEN Pass2(i + 1, guess, solutionWord,
                    [statuses EXCEPT ![i] = "present"],
                    [taken EXCEPT ![IndexOfCharInSolution(guess[i], solutionWord, taken)] = TRUE])
         ELSE Pass2(i + 1, guess, solutionWord, statuses, taken)

getGuessStatuses(guess, solutionWord) ==
    Pass2(1, guess, solutionWord,
          Pass1Statuses(guess, solutionWord), Pass1Taken(guess, solutionWord))

----------------------------------------------------------------------------
(* The keyboard aggregate: getKeyStatuses *)

\* mutant: the status scored last is kept
keyPriorityLastWins(currentStatus, newStatus) == newStatus
\* the status a letter gets from its current one, "undefined" if it has none,
\* and a newly scored one: correct > present > absent
keyPriority(currentStatus, newStatus) ==
    IF currentStatus = "correct" THEN currentStatus
    ELSE IF newStatus = "correct" THEN "correct"
    ELSE IF currentStatus = "present" THEN currentStatus
    ELSE IF newStatus = "present" THEN "present"
    ELSE IF newStatus = "absent" THEN "absent"
    ELSE currentStatus
KeyStatusOf(map, letter) == IF letter \in DOMAIN map THEN map[letter] ELSE "undefined"
KeyLetter(map, letter, newStatus) ==
    LET status == keyPriority(KeyStatusOf(map, letter), newStatus)
    IN IF status = "undefined" THEN map
       ELSE [x \in (DOMAIN map) \cup {letter} |-> IF x = letter THEN status ELSE map[x]]
\* guess.split('').forEach((letter, i) => ...), from position i on
RECURSIVE KeyLetters(_, _, _, _)
KeyLetters(i, guess, statuses, map) ==
    IF i > Len(guess) THEN map
    ELSE KeyLetters(i + 1, guess, statuses, KeyLetter(map, guess[i], statuses[i]))
\* solutions.forEach((sol, solIndex) => ...), from board solIndex on; a solved
\* board is skipped
RECURSIVE KeySolutions(_, _, _, _, _)
KeySolutions(solIndex, guess, sols, solved, map) ==
    IF solIndex > Len(sols) THEN map
    ELSE KeySolutions(solIndex + 1, guess, sols, solved,
            IF solved[solIndex] THEN map
            ELSE KeyLetters(1, guess, getGuessStatuses(guess, sols[solIndex]), map))
\* guesses.forEach((guess) => ...), from guess g on
RECURSIVE KeyGuesses(_, _, _, _, _)
KeyGuesses(g, gs, sols, solved, map) ==
    IF g > Len(gs) THEN map
    ELSE KeyGuesses(g + 1, gs, sols, solved, KeySolutions(1, gs[g], sols, solved, map))
getKeyStatusesOf(gs, sols, solved) == KeyGuesses(1, gs, sols, solved, EmptyMap)
getKeyStatuses == getKeyStatusesOf(guesses, solutions, solvedIndices)

----------------------------------------------------------------------------
(* The single-shot timers of setTimeout *)

\* The pending timers of one kind, [stale, fresh]: those scheduled before,
\* and since, the last initGame.  A specification either counts them or,
\* as Spec does, leaves them Uncounted: then ToastTimer and ShakeTimer stand
\* for the firing of whichever timer is pending.
Uncounted == [counted |-> FALSE, stale |-> 0, fresh |-> 0]
NoTimers == [counted |-> TRUE, stale |-> 0, fresh |-> 0]
Pending(t) == t.stale + t.fresh
\* counted timers are explored while at most this many of a kind are pending
MaxTimers == 2
TimerRoom(t) == IF t.counted THEN Pending(t) < MaxTimers ELSE TRUE
\* setTimeout(callback, delay)
setTimeout(t) == IF t.counted THEN [t EXCEPT !.fresh = @ + 1] ELSE t
\* initGame clears no timer: the pending ones outlive the level
Outlived(t) == IF t.counted THEN [t EXCEPT !.stale = Pending(t), !.fresh = 0] ELSE t
\* the timers of equal delay fire in the order they were scheduled
Fired(t) == IF t.stale > 0 THEN [t EXCEPT !.stale = @ - 1] ELSE [t EXCEPT !.fresh = @ - 1]

----------------------------------------------------------------------------
(* Level initialisation: initGame, and the effect that resets the score *)

\* mutant: one board fewer
numWordsIsLevel(lv) == lv
numWords(lv) == lv + 1
maxChallenges == 6 + level

\* the lists the selection loop of initGame can end with: n distinct words
\* of validWords, in the order drawn
\* mutant: a word may be drawn twice
IsSelectionWithRepeats(sel, n) ==
    /\ Len(sel) = n
    /\ \A i \in 1..n : Includes(validWords, sel[i])
IsSelection(sel, n) ==
    /\ Len(sel) = n
    /\ \A i \in 1..n : Includes(validWords, sel[i])
    /\ \A i, j \in 1..n : i # j => sel[i] # sel[j]
Selections(n) ==
    {sel \in [1..n -> {validWords[i] : i \in 1..Len(validWords)}] : IsSelection(sel, n)}

\* mutant: the hint cost is carried over
initGameKeepsHintCost(lv, newSolutions) ==
    /\ solutions' = newSolutions
    /\ solvedIndices' = Fill(numWords(lv), FALSE)
    /\ guesses' = <<>>
    /\ currentGuess' = Fill(WORD_LENGTH, "")
    /\ activeTileIndex' = 0
    /\ gameStatus' = "playing"
    /\ shakeRow' = FALSE
    /\ UNCHANGED hintCost
    /\ revealedHints' = EmptyMap
    /\ hintedSolutionIndex' = Null
    /\ toast' = "null"
    /\ hintsGranted' = 0
    /\ toastTimers' = Outlived(toastTimers)
    /\ shakeTimers' = Outlived(shakeTimers)
\* initGame for level lv with the drawn solutions
initGame(lv, newSolutions) ==
    /\ solutions' = newSolutions
    /\ solvedIndices' = Fill(numWords(lv), FALSE)
    /\ guesses' = <<>>
    /\ currentGuess' = Fill(WORD_LENGTH, "")
    /\ activeTileIndex' = 0
    /\ gameStatus' = "playing"
    /\ shakeRow' = FALSE
    /\ hintCost' = 5
    /\ revealedHints' = EmptyMap
    /\ hintedSolutionIndex' = Null
    /\ toast' = "null"
    /\ hintsGranted' = 0
    /\ toastTimers' = Outlived(toastTimers)
    /\ shakeTimers' = Outlived(shakeTimers)

Init ==
    /\ WORD_LENGTH = GameWordLength
    /\ level = 0
    /\ score = 0
    /\ hintCost = 5
    /\ solutions \in Selections(numWords(0))
    /\ solvedIndices = Fill(numWords(0), FALSE)
    /\ guesses = <<>>
    /\ currentGuess = Fill(WORD_LENGTH, "")
    /\ activeTileIndex = 0
    /\ gameStatus = "playing"
    /\ shakeRow = FALSE
    /\ revealedHints = EmptyMap
    /\ hintedSolutionIndex = Null
    /\ toast = "null"
    /\ validGuessesSet = InitialValidGuesses
    /\ hintsGranted = 0
    /\ toastTimers = Uncounted /\ shakeTimers = Uncounted
    /\ drawnSolutions = <<>> /\ initPc = "idle"
    /\ fetchPending = TRUE /\ isDictionaryLoaded = FALSE
    /\ keyStatuses = EmptyMap
    /\ sGuess = <<>> /\ sSolution = <<>> /\ sStatuses = <<>>

----------------------------------------------------------------------------
(* Transient signals: showToast and the shake of the input row *)

\* setToast({ text, id }) and the timer that clears it; the text and id of
\* the toast are not part of the model, no handler reads them
showToast ==
    /\ TimerRoom(toastTimers)
    /\ toast' = "shown"
    /\ toastTimers' = setTimeout(toastTimers)
\* setShakeRow(true) and the timer that clears it
shakeTheRow ==
    /\ TimerRoom(shakeTimers)
    /\ shakeRow' = TRUE
    /\ shakeTimers' = setTimeout(shakeTimers)

\* the single-shot timers when they are not counted; one is pending whenever
\* its flag is set
ToastTimer ==
    /\ ~toastTimers.counted
    /\ toast # "null"
    /\ toast' = "null"
    /\ UNCHANGED <<WORD_LENGTH, level, score, hintCost, solutions, guesses,
                   currentGuess, activeTileIndex, gameStatus, solvedIndices,
                   revealedHints, hintedSolutionIndex, shakeRow,
                   validGuessesSet, hintsGranted, timerVars, sideVars>>
ShakeTimer ==
    /\ ~shakeTimers.counted
    /\ shakeRow
    /\ shakeRow' = FALSE
    /\ UNCHANGED <<WORD_LENGTH, level, score, hintCost, solutions, guesses,
                   currentGuess, activeTileIndex, gameStatus, solvedIndices,
                   revealedHints, hintedSolutionIndex, toast,
                   validGuessesSet, hintsGranted, timerVars, sideVars>>

----------------------------------------------------------------------------
(* onKeyDown *)

\* what no key changes
KeyFrame == UNCHANGED <<WORD_LENGTH, level, hintCost, solutions, validGuessesSet,
                        hintsGranted, sideVars>>

\* any key, and the hint button's handler, while the level is over: early return
Ignored ==
    /\ gameStatus # "playing"
    /\ UNCHANGED <<score, guesses, currentGuess, activeTileIndex, gameStatus,
                   solvedIndices, revealedHints, hintedSolutionIndex, shakeRow, toast, timerVars>>
    /\ KeyFrame

\* mutant: the slot before the cursor is cleared whatever the cursor's slot holds
BackspaceGuessPrevious(buf, cursor) == [buf EXCEPT ![Max(0, cursor - 1) + 1] = ""]
BackspaceGuess(buf, cursor) ==
    IF At(buf, cursor) # ""
    THEN [buf EXCEPT ![cursor + 1] = ""]
    ELSE [buf EXCEPT ![Max(0, cursor - 1) + 1] = ""]
BackspaceCursor(buf, cursor) ==
    IF At(buf, cursor) # "" THEN cursor ELSE Max(0, cursor - 1)

Backspace ==
    /\ gameStatus = "playing"
    /\ currentGuess' = BackspaceGuess(currentGuess, activeTileIndex)
    /\ activeTileIndex' = BackspaceCursor(currentGuess, activeTileIndex)
    /\ UNCHANGED <<score, guesses, gameStatus, solvedIndices, revealedHints,
                   hintedSolutionIndex, shakeRow, toast, timerVars>>
    /\ KeyFrame

ArrowLeft ==
    /\ gameStatus = "playing"
    /\ activeTileIndex' = Max(0, activeTileIndex - 1)
    /\ UNCHANGED <<score, guesses, currentGuess, gameStatus, solvedIndices,
                   revealedHints, hintedSolutionIndex, shakeRow, toast, timerVars>>
    /\ KeyFrame

\* mutant: the cursor is not kept on the row
ArrowRightUnclamped ==
    /\ gameStatus = "playing"
    /\ activeTileIndex' = activeTileIndex + 1
    /\ UNCHANGED <<score, guesses, currentGuess, gameStatus, solvedIndices,
                   revealedHints, hintedSolutionIndex, shakeRow, toast, timerVars>>
    /\ KeyFrame
ArrowRight ==
    /\ gameStatus = "playing"
    /\ activeTileIndex' = Min(WORD_LENGTH - 1, activeTileIndex + 1)
    /\ UNCHANGED <<score, guesses, currentGuess, gameStatus, solvedIndices,
                   revealedHints, hintedSolutionIndex, shakeRow, toast, timerVars>>
    /\ KeyFrame

\* mutant: a letter is typed whatever the status
LetterInAnyStatus(key) ==
    /\ currentGuess' = [currentGuess EXCEPT ![activeTileIndex + 1] = key]
    /\ activeTileIndex' = IF activeTileIndex < WORD_LENGTH - 1
                          THEN activeTileIndex + 1 ELSE activeTileIndex
    /\ UNCHANGED <<score, guesses, gameStatus, solvedIndices, revealedHints,
                   hintedSolutionIndex, shakeRow, toast, timerVars>>
    /\ KeyFrame
Letter(key) ==
    /\ gameStatus = "playing"
    /\ currentGuess' = [currentGuess EXCEPT ![activeTileIndex + 1] = key]
    /\ activeTileIndex' = IF activeTileIndex < WORD_LENGTH - 1
                          THEN activeTileIndex + 1 ELSE activeTileIndex
    /\ UNCHANGED <<score, guesses, gameStatus, solvedIndices, revealedHints,
                   hintedSolutionIndex, shakeRow, toast, timerVars>>
    /\ KeyFrame

\* the onClick of a tile of the input row, which is rendered while the level
\* is being played
TileClick(i) ==
    /\ gameStatus = "playing"
    /\ activeTileIndex' = i
    /\ UNCHANGED <<score, guesses, currentGuess, gameStatus, solvedIndices,
                   revealedHints, hintedSolutionIndex, shakeRow, toast, timerVars>>
    /\ KeyFrame

IsIncomplete(buf) == Len(Join(buf)) # WORD_LENGTH \/ Includes(buf, "")
\* mutant: the dictionary is not consulted
IsValidGuessAlways(joinedGuess) == Len(joinedGuess) = WORD_LENGTH
IsValidGuess(joinedGuess) == joinedGuess \in validGuessesSet

\* ENTER on a buffer with an empty slot
EnterIncomplete ==
    /\ gameStatus = "playing"
    /\ IsIncomplete(currentGuess)
    /\ shakeTheRow
    /\ showToast
    /\ UNCHANGED <<score, guesses, currentGuess, activeTileIndex, gameStatus,
                   solvedIndices, revealedHints, hintedSolutionIndex>>
    /\ KeyFrame

\* ENTER on a full buffer whose word is not in the dictionary
EnterUnknown ==
    /\ gameStatus = "playing"
    /\ ~IsIncomplete(currentGuess)
    /\ ~IsValidGuess(Join(currentGuess))
    /\ shakeTheRow
    /\ showToast
    /\ UNCHANGED <<score, guesses, currentGuess, activeTileIndex, gameStatus,
                   solvedIndices, revealedHints, hintedSolutionIndex>>
    /\ KeyFrame

\* the boards the submitted word solves
NewSolvedIndices(joinedGuess) ==
    [i \in 1..Len(solvedIndices) |->
        solvedIndices[i] \/ (i <= Len(solutions) /\ joinedGuess = solutions[i])]
\* mutant: the attempts are counted after the new guess was appended
pointsEarnedAfterAppend(attemptsTaken) == Max(10, 100 - ((attemptsTaken + 1) * 15))
pointsEarned(attemptsTaken) == Max(10, 100 - (attemptsTaken * 15))
RECURSIVE TurnPoints(_, _)
TurnPoints(i, joinedGuess) ==
    IF i > Len(solutions) THEN 0
    ELSE (IF ~solvedIndices[i] /\ joinedGuess = solutions[i]
          THEN pointsEarned(Len(guesses)) ELSE 0)
         + TurnPoints(i + 1, joinedGuess)

\* mutant: the revealed hints are not put back
NextGuessEmpty(revealed) == Fill(WORD_LENGTH, "")
\* the next guess buffer: empty, with the revealed hints put back
NextGuess(revealed) ==
    [i \in 1..WORD_LENGTH |-> IF (i - 1) \in DOMAIN revealed THEN revealed[i - 1] ELSE ""]

\* mutant: the solved flags of before the submission are read
wasHintedWordSolvedStale(newSolved) ==
    hintedSolutionIndex # Null /\ At(solvedIndices, hintedSolutionIndex)
wasHintedWordSolved(newSolved) ==
    hintedSolutionIndex # Null /\ At(newSolved, hintedSolutionIndex)

\* mutant: the attempts are checked before the solved boards
NextStatusLostFirst(newSolved, newGuesses) ==
    IF Len(newGuesses) >= maxChallenges THEN "lost"
    ELSE IF Every(newSolved) THEN "won"
    ELSE gameStatus
\* mutant: the level is lost one attempt late
NextStatusLostLate(newSolved, newGuesses) ==
    IF Every(newSolved) THEN "won"
    ELSE IF Len(newGuesses) > maxChallenges THEN "lost"
    ELSE gameStatus
NextStatus(newSolved, newGuesses) ==
    IF Every(newSolved) THEN "won"
    ELSE IF Len(newGuesses) >= maxChallenges THEN "lost"
    ELSE gameStatus
\* a toast is shown for a win, a loss and a turn that earned points
EnterShowsToast(newSolved, newGuesses, turnPoints) ==
    Every(newSolved) \/ Len(newGuesses) >= maxChallenges \/ turnPoints > 0

\* ENTER on a full buffer whose word is in the dictionary
EnterAccepted ==
    /\ gameStatus = "playing"
    /\ ~IsIncomplete(currentGuess)
    /\ IsValidGuess(Join(currentGuess))
    /\ LET joinedGuess == Join(currentGuess)
           newGuesses == Append(guesses, joinedGuess)
           newSolvedIndices == NewSolvedIndices(joinedGuess)
           turnPoints == TurnPoints(1, joinedGuess)
       IN /\ score + turnPoints <= MaxScore    \* bound of the model, not of the code
          /\ guesses' = newGuesses
          /\ score' = score + turnPoints
          /\ solvedIndices' = newSolvedIndices
          /\ IF wasHintedWordSolved(newSolvedIndices)
             THEN /\ revealedHints' = EmptyMap
                  /\ hintedSolutionIndex' = Null
                  /\ currentGuess' = Fill(WORD_LENGTH, "")
             ELSE /\ currentGuess' = NextGuess(revealedHints)
                  /\ UNCHANGED <<revealedHints, hintedSolutionIndex>>
          /\ activeTileIndex' = 0
          /\ gameStatus' = NextStatus(newSolvedIndices, newGuesses)
          /\ IF EnterShowsToast(newSolvedIndices, newGuesses, turnPoints)
             THEN showToast
             ELSE UNCHANGED <<toast, toastTimers>>
    /\ UNCHANGED <<shakeRow, shakeTimers>>
    /\ KeyFrame

----------------------------------------------------------------------------
(* handleHint *)

HintFrame == UNCHANGED <<WORD_LENGTH, level, solutions, guesses, gameStatus,
                         solvedIndices, validGuessesSet, sideVars>>
HintRejectedFrame == HintFrame /\ UNCHANGED hintsGranted

HintInsufficient ==
    /\ gameStatus = "playing"
    /\ score < hintCost
    /\ showToast
    /\ UNCHANGED <<score, hintCost, currentGuess, activeTileIndex,
                   revealedHints, hintedSolutionIndex, shakeRow, shakeTimers>>
    /\ HintRejectedFrame

\* the ENTER branch of onKeyDown while playing
Enter == EnterIncomplete \/ EnterUnknown \/ EnterAccepted

\* mutant: the last unsolved board is taken
currentUnsolvedIndexLast ==
    IF \E i \in 1..Len(solvedIndices) : ~solvedIndices[i]
    THEN (CHOOSE i \in 1..Len(solvedIndices) :
             ~solvedIndices[i] /\ \A j \in (i + 1)..Len(solvedIndices) : solvedIndices[j]) - 1
    ELSE -1
\* the first unsolved board, 0-based, -1 if none
currentUnsolvedIndex == FindIndex(solvedIndices, {FALSE})

Retarget ==
    \/ hintedSolutionIndex = Null
    \/ At(solvedIndices, hintedSolutionIndex)
    \/ hintedSolutionIndex # currentUnsolvedIndex
activeHintIndex == IF Retarget THEN currentUnsolvedIndex ELSE hintedSolutionIndex

\* slots that are empty and not revealed, read from the state the handler
\* was rendered with (the revealedHints of before a retarget)
availableIndices ==
    {i \in 0..(Len(currentGuess) - 1) :
        /\ At(currentGuess, i) = ""
        /\ ~(i \in DOMAIN revealedHints /\ revealedHints[i] # "")}

HintNoSlot ==
    /\ gameStatus = "playing"
    /\ score >= hintCost
    /\ currentUnsolvedIndex # -1
    /\ availableIndices = {}
    /\ hintedSolutionIndex' = activeHintIndex
    /\ revealedHints' = IF Retarget THEN EmptyMap ELSE revealedHints
    /\ showToast
    /\ shakeTheRow
    /\ UNCHANGED <<score, hintCost, currentGuess, activeTileIndex>>
    /\ HintRejectedFrame

\* the cursor after a hint filled the active slot: the scan reads the buffer
\* of before the reveal
RECURSIVE NextIndex(_, _)
NextIndex(nextIndex, buf) ==
    IF nextIndex < WORD_LENGTH - 1 /\ At(buf, nextIndex) # ""
    THEN NextIndex(nextIndex + 1, buf)
    ELSE nextIndex

HintCursor(randomIndex) ==
    IF randomIndex = activeTileIndex
    THEN NextIndex(activeTileIndex, currentGuess)
    ELSE activeTileIndex

\* mutant: the hint is charged twice
HintScoreTwice(sc, cost) == sc - (2 * cost)
HintScore(sc, cost) == sc - cost
\* mutant: the cost doubles
HintNextCostDoubled(cost) == cost * 2
HintNextCost(cost) == cost + 5

HintGranted ==
    /\ gameStatus = "playing"
    /\ score >= hintCost
    /\ currentUnsolvedIndex # -1
    /\ availableIndices # {}
    /\ \E randomIndex \in availableIndices :
          LET correctLetter == At(At(solutions, activeHintIndex), randomIndex)
          IN /\ hintedSolutionIndex' = activeHintIndex
             /\ revealedHints' =
                   [x \in (DOMAIN revealedHints) \cup {randomIndex} |->
                        IF x = randomIndex THEN correctLetter ELSE revealedHints[x]]
             /\ currentGuess' = [currentGuess EXCEPT ![randomIndex + 1] = correctLetter]
             /\ activeTileIndex' = HintCursor(randomIndex)
    /\ score' = HintScore(score, hintCost)
    /\ hintCost' = HintNextCost(hintCost)
    /\ hintsGranted' = hintsGranted + 1
    /\ UNCHANGED <<shakeRow, toast, timerVars>>
    /\ HintFrame

\* handleHint while playing
HintRequest == HintInsufficient \/ HintNoSlot \/ HintGranted

----------------------------------------------------------------------------
(* The level controls, rendered once the level is over *)

\* "Proxima Fase": setLevel(prev + 1); the effects then run initGame.  The
\* step exists when the selection loop of initGame can end, that is when
\* validWords holds level + 2 distinct words
AdvanceLevel ==
    /\ gameStatus = "won"
    /\ level < MaxLevel
    /\ level' = level + 1
    /\ \E newSolutions \in Selections(numWords(level + 1)) : initGame(level + 1, newSolutions)
    /\ UNCHANGED <<WORD_LENGTH, score, validGuessesSet, sideVars>>

\* "Tentar Novamente": initGame at the same level
RestartLevel ==
    /\ gameStatus = "lost"
    /\ \E newSolutions \in Selections(numWords(level)) : initGame(level, newSolutions)
    /\ UNCHANGED <<WORD_LENGTH, level, score, validGuessesSet, sideVars>>

\* "Reiniciar do Zero": setLevel(0); setting the level it already has
\* renders nothing and runs no effect
ResetToZero ==
    /\ gameStatus = "lost"
    /\ IF level = 0
       THEN UNCHANGED <<level, score, hintCost, solutions, guesses, currentGuess,
                        activeTileIndex, gameStatus, solvedIndices, revealedHints,
                        hintedSolutionIndex, shakeRow, toast, hintsGranted, timerVars>>
       ELSE /\ level' = 0
            /\ score' = 0
            /\ \E newSolutions \in Selections(numWords(0)) : initGame(0, newSolutions)
    /\ UNCHANGED <<WORD_LENGTH, validGuessesSet, sideVars>>

\* the steps that run initGame
LevelInit == AdvanceLevel \/ RestartLevel \/ (ResetToZero /\ level # 0)

----------------------------------------------------------------------------
Next ==
    \/ Ignored
    \/ Backspace
    \/ ArrowLeft
    \/ ArrowRight
    \/ \E key \in Letters : Letter(key)
    \/ \E i \in 0..(WORD_LENGTH - 1) : TileClick(i)
    \/ Enter
    \/ HintRequest
    \/ AdvanceLevel
    \/ RestartLevel
    \/ ResetToZero
    \/ ToastTimer
    \/ ShakeTimer

Spec == Init /\ [][Next]_vars

----------------------------------------------------------------------------
(* initGame step by step: the level controls start it, the selection loop  *)
(* draws one word per iteration, and the resets follow the loop.  No event *)
(* is delivered while the loop runs.                                       *)

InitFrame == UNCHANGED <<WORD_LENGTH, hintCost, solutions, guesses, currentGuess,
                         activeTileIndex, gameStatus, solvedIndices, revealedHints,
                         hintedSolutionIndex, shakeRow, toast, validGuessesSet,
                         hintsGranted, timerVars, fetchPending, isDictionaryLoaded,
                         keyStatuses, scorerVars>>

\* "Proxima Fase": setLevel(prev + 1), then the effect calls initGame
AdvanceClick ==
    /\ initPc = "idle"
    /\ gameStatus = "won"
    /\ level' = level + 1
    /\ initPc' = "loop"
    /\ drawnSolutions' = <<>>
    /\ UNCHANGED score
    /\ InitFrame

\* "Tentar Novamente": initGame
RestartClick ==
    /\ initPc = "idle"
    /\ gameStatus = "lost"
    /\ initPc' = "loop"
    /\ drawnSolutions' = <<>>
    /\ UNCHANGED <<level, score>>
    /\ InitFrame

\* "Reiniciar do Zero": setLevel(0), then the effects call initGame and
\* reset the score; nothing runs when the level is 0 already
ResetClick ==
    /\ initPc = "idle"
    /\ gameStatus = "lost"
    /\ IF level = 0
       THEN UNCHANGED <<level, score, initPc, drawnSolutions>>
       ELSE /\ level' = 0
            /\ score' = 0
            /\ initPc' = "loop"
            /\ drawnSolutions' = <<>>
    /\ InitFrame

\* one iteration of while (newSolutions.length < numWords)
SelectDraw ==
    /\ initPc = "loop"
    /\ Len(drawnSolutions) < numWords(level)
    /\ \E k \in 1..Len(validWords) :
          LET randomWord == validWords[k]
          IN drawnSolutions' = IF ~Includes(drawnSolutions, randomWord)
                               THEN Append(drawnSolutions, randomWord)
                               ELSE drawnSolutions
    /\ UNCHANGED <<level, score, initPc>>
    /\ InitFrame

\* the loop condition is false: the resets of initGame
SelectEnd ==
    /\ initPc = "loop"
    /\ ~(Len(drawnSolutions) < numWords(level))
    /\ initGame(level, drawnSolutions)
    /\ initPc' = "idle"
    /\ drawnSolutions' = <<>>
    /\ UNCHANGED <<WORD_LENGTH, level, score, validGuessesSet, fetchPending,
                   isDictionaryLoaded, keyStatuses, scorerVars>>

\* the handlers that need the level to be played are not guarded again: the
\* status is "won" or "lost" for as long as the loop runs
NextInit ==
    \/ initPc = "idle" /\ Ignored
    \/ Backspace
    \/ ArrowLeft
    \/ ArrowRight
    \/ \E key \in Letters : Letter(key)
    \/ \E i \in 0..(WORD_LENGTH - 1) : TileClick(i)
    \/ Enter
    \/ HintRequest
    \/ AdvanceClick
    \/ RestartClick
    \/ ResetClick
    \/ SelectDraw
    \/ SelectEnd
    \/ initPc = "idle" /\ ToastTimer
    \/ initPc = "idle" /\ ShakeTimer

SpecInit == Init /\ [][NextInit]_vars

----------------------------------------------------------------------------
(* fetchDictionary: the response text is split in lines, each line is      *)
(* trimmed, stripped of its diacritics and upper-cased, and the lines that *)
(* are words of the build's length are added to the validation vocabulary. *)
(* A character is a one-character string; "a'" is the letter a with an     *)
(* acute accent and "'" the combining mark its decomposition holds.        *)

UpperLetters == {"A", "B"}
\* String.trim
RECURSIVE trimStart(_)
trimStart(w) == IF w # <<>> /\ Head(w) = " " THEN trimStart(Tail(w)) ELSE w
RECURSIVE trimEnd(_)
trimEnd(w) ==
    IF w # <<>> /\ w[Len(w)] = " " THEN trimEnd(SubSeq(w, 1, Len(w) - 1)) ELSE w
trim(w) == trimEnd(trimStart(w))
\* String.normalize("NFD")
RECURSIVE normalizeNFD(_)
normalizeNFD(w) ==
    IF w = <<>> THEN <<>>
    ELSE (IF Head(w) = "a'" THEN <<"a", "'">> ELSE <<Head(w)>>) \o normalizeNFD(Tail(w))
\* replace(/[\u0300-\u036f]/g, "")
NotCombiningMark(c) == c # "'"
stripMarks(w) == SelectSeq(w, NotCombiningMark)
\* String.toUpperCase
toUpperCase(w) ==
    [i \in 1..Len(w) |-> IF w[i] = "a" THEN "A" ELSE IF w[i] = "b" THEN "B" ELSE w[i]]
processWord(w) == toUpperCase(stripMarks(normalizeNFD(trim(w))))
\* mutant: the length is not checked
IsDictionaryWordOfAnyLength(w) == w # <<>> /\ \A i \in 1..Len(w) : w[i] \in UpperLetters
\* w.length === WORD_LENGTH && /^[A-Z]+$/.test(w)
IsDictionaryWord(w) ==
    Len(w) = WORD_LENGTH /\ w # <<>> /\ \A i \in 1..Len(w) : w[i] \in UpperLetters
processedWords(rawWords) ==
    {processWord(rawWords[i]) :
        i \in {j \in 1..Len(rawWords) : IsDictionaryWord(processWord(rawWords[j]))}}

\* lines of a response: a new word in lower case, a known word with spaces
\* around it, a known word with an accent, a hyphenated entry, a longer
\* word, and the empty line that ends the text
LineNewWord == Fill(WORD_LENGTH, "a")
LinePadded == <<" ">> \o [i \in 1..WORD_LENGTH |-> IF i = 1 THEN "b" ELSE "a"] \o <<" ", " ">>
LineAccented == [i \in 1..WORD_LENGTH |-> IF i = 1 THEN "a'" ELSE IF i = 2 THEN "b" ELSE "a"]
LineHyphenated == [i \in 1..WORD_LENGTH |-> IF i = WORD_LENGTH THEN "-" ELSE "a"]
LineLonger == Fill(WORD_LENGTH + 1, "b")
\* the responses explored: one that brings a new word, one that brings none
Responses ==
    {<<LineNewWord, LinePadded, LineAccented, LineHyphenated, LineLonger, <<>>>>,
     <<LinePadded, LineHyphenated, LineLonger, <<>>>>}

FetchFrame == UNCHANGED <<WORD_LENGTH, level, score, hintCost, solutions, guesses,
                          currentGuess, activeTileIndex, gameStatus, solvedIndices,
                          revealedHints, hintedSolutionIndex, shakeRow, toast,
                          hintsGranted, timerVars, drawnSolutions, initPc,
                          keyStatuses, scorerVars>>

\* the response arrived and its text was read
FetchLoaded ==
    /\ fetchPending
    /\ \E rawWords \in Responses :
          validGuessesSet' = validGuessesSet \cup processedWords(rawWords)
    /\ isDictionaryLoaded' = TRUE
    /\ fetchPending' = FALSE
    /\ FetchFrame

\* the request failed or the response was not ok: the catch block warns
FetchFailed ==
    /\ fetchPending
    /\ fetchPending' = FALSE
    /\ UNCHANGED <<validGuessesSet, isDictionaryLoaded>>
    /\ FetchFrame

\* the game of level 0 with the fetch completing at any point; the score is
\* 0 for as long as level 0 is played, which leaves handleHint its first
\* rejection only
NextFetch ==
    \/ FetchLoaded
    \/ FetchFailed
    \/ Ignored
    \/ Backspace
    \/ ArrowLeft
    \/ ArrowRight
    \/ \E key \in Letters : Letter(key)
    \/ \E i \in 0..(WORD_LENGTH - 1) : TileClick(i)
    \/ Enter
    \/ HintInsufficient
    \/ RestartLevel
    \/ ResetToZero
    \/ ToastTimer
    \/ ShakeTimer

SpecFetch == Init /\ [][NextFetch]_vars

----------------------------------------------------------------------------
(* The game with its timers counted: every showToast and every shake of    *)
(* the row schedules a timer, a timer fires once, and initGame clears none *)

InitTimers ==
    /\ WORD_LENGTH = GameWordLength
    /\ level = 0
    /\ score = 0
    /\ hintCost = 5
    /\ solutions \in Selections(numWords(0))
    /\ solvedIndices = Fill(numWords(0), FALSE)
    /\ guesses = <<>>
    /\ currentGuess = Fill(WORD_LENGTH, "")
    /\ activeTileIndex = 0
    /\ gameStatus = "playing"
    /\ shakeRow = FALSE
    /\ revealedHints = EmptyMap
    /\ hintedSolutionIndex = Null
    /\ toast = "null"
    /\ validGuessesSet = InitialValidGuesses
    /\ hintsGranted = 0
    /\ toastTimers = NoTimers /\ shakeTimers = NoTimers
    /\ drawnSolutions = <<>> /\ initPc = "idle"
    /\ fetchPending = TRUE /\ isDictionaryLoaded = FALSE
    /\ keyStatuses = EmptyMap
    /\ sGuess = <<>> /\ sSolution = <<>> /\ sStatuses = <<>>

\* () => setToast(null)
ToastTimeout ==
    /\ toastTimers.counted
    /\ Pending(toastTimers) > 0
    /\ toast' = "null"
    /\ toastTimers' = Fired(toastTimers)
    /\ UNCHANGED <<WORD_LENGTH, level, score, hintCost, solutions, guesses,
                   currentGuess, activeTileIndex, gameStatus, solvedIndices,
                   revealedHints, hintedSolutionIndex, shakeRow, shakeTimers,
                   validGuessesSet, hintsGranted, sideVars>>

\* () => setShakeRow(false)
ShakeTimeout ==
    /\ shakeTimers.counted
    /\ Pending(shakeTimers) > 0
    /\ shakeRow' = FALSE
    /\ shakeTimers' = Fired(shakeTimers)
    /\ UNCHANGED <<WORD_LENGTH, level, score, hintCost, solutions, guesses,
                   currentGuess, activeTileIndex, gameStatus, solvedIndices,
                   revealedHints, hintedSolutionIndex, toast, toastTimers,
                   validGuessesSet, hintsGranted, sideVars>>

NextTimers ==
    \/ Ignored
    \/ Backspace
    \/ ArrowLeft
    \/ ArrowRight
    \/ \E key \in Letters : Letter(key)
    \/ \E i \in 0..(WORD_LENGTH - 1) : TileClick(i)
    \/ Enter
    \/ HintRequest
    \/ AdvanceLevel
    \/ RestartLevel
    \/ ResetToZero
    \/ ToastTimeout
    \/ ShakeTimeout

SpecTimers == InitTimers /\ [][NextTimers]_vars

----------------------------------------------------------------------------
(* The Scorer on its own: the arguments are drawn, one step applies it *)

\* word length of the build whose Scorer is explored over a whole alphabet
ScorerWordLength == 3
ScorerAlphabet == {"A", "B", "C"}
SPEED == <<"S", "P", "E", "E", "D">>
ERASE == <<"E", "R", "A", "S", "E">>
ScorerWords ==
    IF WORD_LENGTH = Len(SPEED)
    THEN {SPEED, ERASE} \cup [1..WORD_LENGTH -> {"E", "S"}]
    ELSE [1..WORD_LENGTH -> ScorerAlphabet]

InitScorer ==
    /\ WORD_LENGTH \in {ScorerWordLength, Len(SPEED)}
    /\ level = 0
    /\ score = 0
    /\ hintCost = 5
    /\ solutions = <<validWords[1]>>
    /\ solvedIndices = Fill(numWords(0), FALSE)
    /\ guesses = <<>>
    /\ currentGuess = Fill(WORD_LENGTH, "")
    /\ activeTileIndex = 0
    /\ gameStatus = "playing"
    /\ shakeRow = FALSE
    /\ revealedHints = EmptyMap
    /\ hintedSolutionIndex = Null
    /\ toast = "null"
    /\ validGuessesSet = InitialValidGuesses
    /\ hintsGranted = 0
    /\ toastTimers = Uncounted /\ shakeTimers = Uncounted
    /\ drawnSolutions = <<>> /\ initPc = "idle"
    /\ fetchPending = TRUE /\ isDictionaryLoaded = FALSE
    /\ keyStatuses = EmptyMap
    /\ sGuess \in ScorerWords
    /\ sSolution \in ScorerWords
    /\ sStatuses = <<>>

Score ==
    /\ sStatuses = <<>>
    /\ sStatuses' = getGuessStatuses(sGuess, sSolution)
    /\ UNCHANGED <<WORD_LENGTH, gameVars, timerVars, sGuess, sSolution,
                   drawnSolutions, initPc, fetchPending, isDictionaryLoaded, keyStatuses>>

NextScorer == Score

SpecScorer == InitScorer /\ [][NextScorer]_vars

----------------------------------------------------------------------------
(* The keyboard on its own: the boards of a level and a guess history over *)
(* a dictionary that holds every word are drawn, the solved flags follow   *)
(* from them, and the render aggregates                                    *)

\* histories of at most this many guesses are drawn
MaxKeyGuesses == 3
KeyWords == [1..WORD_LENGTH -> Letters]
KeySolved(gs, sols) == [i \in 1..Len(sols) |-> Includes(gs, sols[i])]
\* a level that is won takes no further guess
IsHistory(gs, sols) ==
    gs = <<>> \/ ~Every(KeySolved(SubSeq(gs, 1, Len(gs) - 1), sols))

InitKeys ==
    /\ WORD_LENGTH = GameWordLength
    /\ level \in 0..MaxLevel
    /\ score = 0
    /\ hintCost = 5
    /\ solutions \in Selections(numWords(level))
    /\ guesses \in UNION {[1..n -> KeyWords] : n \in 0..MaxKeyGuesses}
    /\ IsHistory(guesses, solutions)
    /\ solvedIndices = KeySolved(guesses, solutions)
    /\ currentGuess = Fill(WORD_LENGTH, "")
    /\ activeTileIndex = 0
    /\ gameStatus = IF Every(solvedIndices) THEN "won" ELSE "playing"
    /\ shakeRow = FALSE
    /\ revealedHints = EmptyMap
    /\ hintedSolutionIndex = Null
    /\ toast = "null"
    /\ validGuessesSet = KeyWords
    /\ hintsGranted = 0
    /\ toastTimers = Uncounted /\ shakeTimers = Uncounted
    /\ drawnSolutions = <<>> /\ initPc = "idle"
    /\ fetchPending = FALSE /\ isDictionaryLoaded = TRUE
    /\ keyStatuses = EmptyMap
    /\ sGuess = <<>> /\ sSolution = <<>> /\ sStatuses = <<>>

\* the render calls getKeyStatuses for the on-screen keyboard
RenderKeyboard ==
    /\ keyStatuses' = getKeyStatuses
    /\ UNCHANGED <<WORD_LENGTH, gameVars, timerVars, drawnSolutions, initPc,
                   fetchPending, isDictionaryLoaded, scorerVars>>

NextKeys == RenderKeyboard

SpecKeys == InitKeys /\ [][NextKeys]_vars

------------------------------------------------------------------------

----------------------------------------------------------------------------
(* Properties *)

\* the pre-state of an ENTER that is accepted: every slot filled with a
\* word of the validation vocabulary
Submittable ==
    /\ gameStatus = "playing"
    /\ ~Includes(currentGuess, "")
    /\ Join(currentGuess) \in validGuessesSet
AllSolved(mask) == \A i \in 1..Len(mask) : mask[i]

\* C1: the status is Won exactly when every board is solved, and Lost only
\* when some board is unsolved and the attempts are used up
C1_StatusMatchesSolvedMask ==
    /\ (gameStatus = "won") <=> AllSolved(solvedIndices)
    /\ (gameStatus = "lost") =>
          (~AllSolved(solvedIndices) /\ Len(guesses) >= 6 + level)

\* the last board of a two-board level was solved by the final permitted attempt
C1_Witness ==
    /\ gameStatus = "won"
    /\ level = 1
    /\ Len(guesses) = 6 + level
    /\ toast = "shown"

\* C2: no step but an accepted ENTER or a level initialisation changes
\* Guesses, an accepted ENTER appends exactly the submitted word, and
\* Guesses never holds more than maxChallenges = 6 + level words
C2_GuessesAppendOnlyBounded ==
    /\ [](Len(guesses) <= 6 + level)
    /\ [][ /\ (Enter /\ Submittable) => guesses' = Append(guesses, Join(currentGuess))
           /\ \/ guesses' = guesses
              \/ (Enter /\ Submittable)
              \/ LevelInit
         ]_vars

\* every row of a two-board level was filled without solving both boards
C2_Witness ==
    /\ level = 1
    /\ Len(guesses) = 7
    /\ gameStatus = "lost"
    /\ toast = "shown"

\* the unsolved boards whose solution is the word in the buffer
Hits == {i \in 1..Len(solutions) : ~solvedIndices[i] /\ solutions[i] = Join(currentGuess)}

\* C3: an accepted submission adds max(10, 100 - 15 * attemptsBefore) to the
\* score for every unsolved board it matches (100 for attemptsBefore = 0, 10
\* from attemptsBefore = 6 on) and marks exactly those boards solved; one
\* that matches none leaves score and SolvedMask as they are
C3_AwardPerSolvedBoard ==
    /\ [](\A n \in 0..12 : pointsEarned(n) = (IF n <= 6 THEN 100 - 15 * n ELSE 10))
    /\ [][ (Enter /\ Submittable) =>
              /\ score' = score + Cardinality(Hits)
                                  * (IF 100 - 15 * Len(guesses) >= 10
                                     THEN 100 - 15 * Len(guesses) ELSE 10)
              /\ Len(solvedIndices') = Len(solvedIndices)
              /\ \A i \in 1..Len(solvedIndices) :
                    solvedIndices'[i] = (solvedIndices[i] \/ i \in Hits)
              /\ (Hits = {} => (score' = score /\ solvedIndices' = solvedIndices))
         ]_vars

\* a board was solved by the seventh submission (attemptsBefore = 6, 10 points)
C3_Witness ==
    /\ Len(guesses) = 7
    /\ gameStatus = "won"
    /\ guesses[7] # guesses[6]
    /\ score >= 110

\* C4: an ENTER on a buffer with an empty slot, or on a word that is not in
\* the validation vocabulary, changes nothing but the shake and the toast
C4_RejectedEnterChangesNothing ==
    [][ (/\ Enter
         /\ gameStatus = "playing"
         /\ (Includes(currentGuess, "") \/ Join(currentGuess) \notin validGuessesSet))
        => /\ UNCHANGED <<guesses, solvedIndices, score, hintCost, currentGuess,
                          activeTileIndex, revealedHints, hintedSolutionIndex,
                          level, gameStatus>>
           /\ shakeRow' /\ toast' # "null"
      ]_vars

\* a full buffer holding an unknown word was rejected while a hint was shown
C4_Witness ==
    /\ gameStatus = "playing"
    /\ toast = "shown"
    /\ shakeRow
    /\ ~Includes(currentGuess, "")
    /\ Join(currentGuess) \notin validGuessesSet
    /\ revealedHints # EmptyMap

\* a slot a hint can fill: empty and not revealed
Hintable == \E i \in 0..(WORD_LENGTH - 1) :
                At(currentGuess, i) = "" /\ i \notin DOMAIN revealedHints

\* C5: a granted hint costs the current hintCost and then raises hintCost by
\* 5, so hintCost is 5 plus 5 per hint granted in the level; a request made
\* with score < hintCost changes none of score, hintCost, buffer, cursor and
\* hint state
C5_HintEconomy ==
    /\ [](hintCost = 5 + 5 * hintsGranted)
    /\ [][ HintRequest =>
              /\ (score >= hintCost /\ Hintable) =>
                    /\ score' = score - hintCost
                    /\ hintCost' = hintCost + 5
                    /\ hintsGranted' = hintsGranted + 1
              /\ (score < hintCost) =>
                    UNCHANGED <<score, hintCost, currentGuess, activeTileIndex,
                                revealedHints, hintedSolutionIndex, hintsGranted>>
         ]_vars

\* a third hint was requested with too few points left for it
C5_Witness ==
    /\ gameStatus = "playing"
    /\ toast = "shown"
    /\ ~shakeRow
    /\ guesses = <<>>
    /\ hintsGranted = 2
    /\ hintCost = 15
    /\ score < 15
    /\ score > 0

SessionVars == <<level, score, hintCost, solutions, guesses, currentGuess,
                 activeTileIndex, gameStatus, solvedIndices, revealedHints,
                 hintedSolutionIndex>>

\* C6: a hint request in Playing state with score >= hintCost and no slot
\* that is both empty and unrevealed leaves the whole session state as it
\* is, the hint target and the revealed slots included
C6_NoSlotRejectionChangesNothing ==
    [][ (HintRequest /\ score >= hintCost /\ ~Hintable) => UNCHANGED SessionVars ]_vars

\* C7: after an accepted submission the cursor is 0; if the hint target is
\* solved by it the hint state is cleared and the buffer empty, otherwise
\* the hint state is unchanged and the buffer holds exactly the revealed
\* letters in their slots
C7_BufferRebuiltFromHints ==
    [][ (Enter /\ Submittable) =>
           /\ activeTileIndex' = 0
           /\ IF hintedSolutionIndex # Null /\ At(solvedIndices', hintedSolutionIndex)
              THEN /\ hintedSolutionIndex' = Null
                   /\ revealedHints' = EmptyMap
                   /\ \A i \in 0..(WORD_LENGTH - 1) : At(currentGuess', i) = ""
              ELSE /\ UNCHANGED <<hintedSolutionIndex, revealedHints>>
                   /\ Len(currentGuess') = WORD_LENGTH
                   /\ \A i \in 0..(WORD_LENGTH - 1) :
                         At(currentGuess', i) =
                            IF i \in DOMAIN revealedHints THEN revealedHints[i] ELSE ""
      ]_vars

\* a submission solved the other board and the hint of the target came back
C7_Witness ==
    /\ gameStatus = "playing"
    /\ toast = "shown"
    /\ Len(guesses) > 0
    /\ hintedSolutionIndex # Null
    /\ revealedHints # EmptyMap
    /\ activeTileIndex = 0
    /\ \A i \in 0..(WORD_LENGTH - 1) :
          At(currentGuess, i) = IF i \in DOMAIN revealedHints THEN revealedHints[i] ELSE ""

\* C8: the hint target is unset or an unsolved board, and every revealed
\* slot holds the letter of the target's solution at that slot
C8_HintTargetUnsolved ==
    /\ hintedSolutionIndex # Null =>
          /\ hintedSolutionIndex \in 0..(Len(solvedIndices) - 1)
          /\ ~At(solvedIndices, hintedSolutionIndex)
    /\ \A slot \in DOMAIN revealedHints :
          /\ hintedSolutionIndex # Null
          /\ slot \in 0..(WORD_LENGTH - 1)
          /\ revealedHints[slot] = At(At(solutions, hintedSolutionIndex), slot)

\* every slot of the second board is revealed after the first was solved
C8_Witness ==
    /\ gameStatus = "playing"
    /\ level = 1
    /\ solvedIndices = <<TRUE, FALSE>>
    /\ hintedSolutionIndex = 1
    /\ DOMAIN revealedHints = 0..(WORD_LENGTH - 1)

Count(c, w) == Cardinality({i \in 1..Len(w) : w[i] = c})
Credited(c, g, st) == {i \in 1..Len(g) : g[i] = c /\ st[i] \in {"correct", "present"}}

\* C9: a position is correct exactly when guess and solution agree there;
\* per letter, the correct and present positions number min(occurrences in
\* the guess, occurrences in the solution), the present ones being the
\* leftmost positions of the letter that are not correct; a guess equal to
\* the solution is all correct, and SPEED against ERASE is present, absent,
\* present, present, absent
C9_ScorerSingleConsumption ==
    sStatuses # <<>> =>
       /\ Len(sStatuses) = WORD_LENGTH
       /\ \A i \in 1..WORD_LENGTH :
             /\ sStatuses[i] \in {"correct", "present", "absent"}
             /\ (sStatuses[i] = "correct") <=> (sGuess[i] = sSolution[i])
       /\ \A c \in {sGuess[i] : i \in 1..WORD_LENGTH} :
             Cardinality(Credited(c, sGuess, sStatuses))
                = Min(Count(c, sGuess), Count(c, sSolution))
       /\ \A i, j \in 1..WORD_LENGTH :
             (/\ i < j /\ sGuess[i] = sGuess[j]
              /\ sStatuses[i] # "correct" /\ sStatuses[j] = "present")
             => sStatuses[i] = "present"
       /\ (sGuess = sSolution) => (\A i \in 1..WORD_LENGTH : sStatuses[i] = "correct")
       /\ (sGuess = SPEED /\ sSolution = ERASE) =>
             sStatuses = <<"present", "absent", "present", "present", "absent">>

\* SPEED was scored against ERASE
C9_Witness ==
    /\ sGuess = SPEED
    /\ sSolution = ERASE
    /\ sStatuses = <<"present", "absent", "present", "present", "absent">>

\* C10: Solutions holds level + 1 pairwise distinct words of length L and
\* SolvedMask has as many entries; no step but a level initialisation
\* changes Solutions or turns a SolvedMask entry from true to false
C10_SolutionsFixedMaskSetOnce ==
    /\ [](/\ Len(solutions) = level + 1
          /\ Len(solvedIndices) = level + 1
          /\ \A i \in 1..Len(solutions) : Len(solutions[i]) = WORD_LENGTH
          /\ \A i, j \in 1..Len(solutions) : i # j => solutions[i] # solutions[j])
    /\ [][ \/ LevelInit
           \/ /\ solutions' = solutions
              /\ Len(solvedIndices') = Len(solvedIndices)
              /\ \A i \in 1..Len(solvedIndices) : solvedIndices[i] => solvedIndices'[i]
         ]_vars

\* the second of two boards stays solved while further guesses are made
C10_Witness ==
    /\ level = 1
    /\ Len(solutions) = 2
    /\ solvedIndices = <<FALSE, TRUE>>
    /\ Len(guesses) >= 3
    /\ gameStatus = "playing"

\* C11: a running initGame can always take a step that changes the state: it
\* draws a word the selection lacks, ends with the selection complete, or
\* fails explicitly; it never iterates without effect
C11_LevelInitTerminates == initPc = "loop" => ENABLED <<SelectDraw \/ SelectEnd>>_vars

\* the step ends in the state initGame leaves: the level is being played
\* from scratch on level' + 1 boards
LevelInitialised ==
    /\ gameStatus' = "playing"
    /\ Len(solutions') = level' + 1
    /\ guesses' = <<>>
    /\ solvedIndices' = Fill(level' + 1, FALSE)
    /\ currentGuess' = Fill(WORD_LENGTH, "")
    /\ activeTileIndex' = 0
    /\ revealedHints' = EmptyMap
    /\ hintedSolutionIndex' = Null
    /\ hintCost' = 5

\* C12: wherever "Reiniciar do Zero" is offered, at level 0 too, its step
\* leaves level 0 initialised and the score 0
C12_ResetToZeroAtAnyLevel ==
    gameStatus = "lost" =>
        ENABLED (ResetToZero /\ level' = 0 /\ score' = 0 /\ LevelInitialised)

\* C13, as stated: "Tentar Novamente" is accepted in Lost and in Won, and
\* its step leaves the same level initialised
C13_RestartAcceptedWonAndLost ==
    gameStatus \in {"won", "lost"} =>
        ENABLED (RestartLevel /\ level' = level /\ LevelInitialised)

\* C13, amended: "Tentar Novamente" is accepted in Lost only, where every
\* step of it leaves the same level initialised; in Won it is not offered
C13_RestartOnlyWhenLost ==
    /\ [](gameStatus = "lost" =>
            ENABLED (RestartLevel /\ level' = level /\ LevelInitialised))
    /\ [](gameStatus = "won" => ~ENABLED RestartLevel)
    /\ [][RestartLevel =>
            (gameStatus = "lost" /\ level' = level /\ LevelInitialised)]_vars

\* level 1 restarted after it was lost with one board solved: the points of
\* that board are kept, which no level advance within MaxScore brings
C13_Witness ==
    /\ level = 1
    /\ gameStatus = "playing"
    /\ guesses = <<>>
    /\ hintCost = 5
    /\ score > 100

\* C14: "Proxima Fase" is offered only in Won; the level rises by no other
\* step, and by exactly 1; the step leaves the new level initialised, with
\* one more board and one more attempt, and the score as it was
C14_AdvanceLevel ==
    /\ [](ENABLED AdvanceLevel => gameStatus = "won")
    /\ [][(AdvanceLevel \/ level' > level) =>
            /\ gameStatus = "won"
            /\ level' = level + 1
            /\ LevelInitialised
            /\ maxChallenges' = maxChallenges + 1
            /\ score' = score]_vars

\* level 1 entered with the points of a level 0 won at the first attempt
C14_Witness ==
    /\ level = 1
    /\ Len(solutions) = 2
    /\ gameStatus = "playing"
    /\ guesses = <<>>
    /\ hintsGranted = 0
    /\ score = 100

\* the onKeyDown handler for the two arrow keys, in whatever status
KeyArrowLeft == ArrowLeft \/ Ignored
KeyArrowRight == ArrowRight \/ Ignored
CursorOnRow == activeTileIndex \in 0..(WORD_LENGTH - 1)
OnlyCursorMoves ==
    UNCHANGED <<WORD_LENGTH, level, score, hintCost, solutions, guesses, currentGuess,
                gameStatus, solvedIndices, revealedHints, hintedSolutionIndex,
                validGuessesSet>>

\* C15, as stated: in every status the arrow keys move the cursor to
\* max(0, Cursor - 1) and min(L - 1, Cursor + 1) and change nothing else, and
\* the cursor stays on the row
C15_ArrowsMoveInEveryStatus ==
    /\ CursorOnRow
    /\ ENABLED (KeyArrowLeft /\ activeTileIndex' = Max(0, activeTileIndex - 1)
                              /\ OnlyCursorMoves)
    /\ ENABLED (KeyArrowRight /\ activeTileIndex' = Min(WORD_LENGTH - 1, activeTileIndex + 1)
                               /\ OnlyCursorMoves)

\* C15, amended: while the level is played the arrow keys move the cursor so
\* and change nothing else; once it is won or lost no key moves the cursor;
\* the cursor stays on the row
C15_ArrowsMoveWhilePlaying ==
    /\ [](CursorOnRow)
    /\ [](gameStatus = "playing" =>
            /\ ENABLED (KeyArrowLeft /\ activeTileIndex' = Max(0, activeTileIndex - 1))
            /\ ENABLED (KeyArrowRight
                          /\ activeTileIndex' = Min(WORD_LENGTH - 1, activeTileIndex + 1)))
    /\ [][ArrowLeft =>
            (activeTileIndex' = Max(0, activeTileIndex - 1) /\ OnlyCursorMoves)]_vars
    /\ [][ArrowRight =>
            (activeTileIndex' = Min(WORD_LENGTH - 1, activeTileIndex + 1)
             /\ OnlyCursorMoves)]_vars
    /\ [][(gameStatus # "playing" /\ (KeyArrowLeft \/ KeyArrowRight)) =>
            activeTileIndex' = activeTileIndex]_vars
    /\ [](gameStatus # "playing" =>
            ~ENABLED ((KeyArrowLeft \/ KeyArrowRight) /\ activeTileIndex' # activeTileIndex))

\* the cursor was moved to the last slot of a row that is still empty
C15_Witness ==
    /\ gameStatus = "playing"
    /\ activeTileIndex = WORD_LENGTH - 1
    /\ currentGuess = Fill(WORD_LENGTH, "")
    /\ guesses # <<>>

\* C16: once the level is won or lost, Letter, Backspace, Enter and
\* HintRequest are handled by the early return alone, and no step other
\* than a level initialisation changes Guesses, SolvedMask, score, hintCost,
\* GuessBuffer, HintState or GameStatus
C16_OverLevelIsFrozen ==
    /\ [](gameStatus # "playing" =>
            /\ ENABLED Ignored
            /\ ~ENABLED (Backspace \/ Enter \/ HintRequest
                          \/ \E key \in Letters : Letter(key)))
    /\ [][gameStatus # "playing" =>
            \/ LevelInit
            \/ UNCHANGED <<guesses, solvedIndices, score, hintCost, currentGuess,
                           revealedHints, hintedSolutionIndex, gameStatus>>]_vars

\* a two-board level was lost with one board solved, and its last toast has
\* since been cleared
C16_Witness ==
    /\ gameStatus = "lost"
    /\ level = 1
    /\ \E i \in 1..Len(solvedIndices) : solvedIndices[i]
    /\ toast = "null"

\* C17: every word of the validation vocabulary has the build's length; the
\* step that completes the fetch keeps every word of the vocabulary and the
\* whole session state, a failed fetch keeps the vocabulary as it is, and no
\* other step changes the vocabulary
C17_FetchOnlyAddsWords ==
    /\ [](\A w \in validGuessesSet : Len(w) = WORD_LENGTH)
    /\ [][(fetchPending /\ ~fetchPending') =>
            /\ validGuessesSet \subseteq validGuessesSet'
            /\ UNCHANGED SessionVars
            /\ (~isDictionaryLoaded' => UNCHANGED validGuessesSet)]_vars
    /\ [][(validGuessesSet' # validGuessesSet) => FetchLoaded]_vars

\* the fetch completed during the game and the word it brought was accepted
\* as the second guess
C17_Witness ==
    /\ isDictionaryLoaded
    /\ Len(guesses) = 2
    /\ guesses[2] = Fill(WORD_LENGTH, "A")
    /\ Fill(WORD_LENGTH, "A") \notin InitialValidGuesses
    /\ Cardinality(validGuessesSet) = Cardinality(InitialValidGuesses) + 1

\* C18: a timer that was scheduled before the last level initialisation
\* changes neither the toast nor the shake flag when it fires
C18_StaleTimersChangeNothing ==
    /\ [][(ToastTimeout /\ toastTimers.stale > 0) => UNCHANGED toast]_vars
    /\ [][(ShakeTimeout /\ shakeTimers.stale > 0) => UNCHANGED shakeRow]_vars

\* the statuses the Scorer gives each guess of gs on each board of sols
\* whose index is in boards
Scored(gs, sols, boards) ==
    [p \in (1..Len(gs)) \X boards |-> getGuessStatuses(gs[p[1]], sols[p[2]])]
\* the statuses of the occurrences of a letter in the guesses so scored
KeyOccurrences(letter, gs, scored) ==
    {scored[q[1]][q[2]] :
        q \in {r \in (DOMAIN scored) \X (1..WORD_LENGTH) : gs[r[1][1]][r[2]] = letter}}
HighestPriority(statuses) ==
    IF "correct" \in statuses THEN "correct"
    ELSE IF "present" \in statuses THEN "present"
    ELSE "absent"
Unsolved == {b \in 1..Len(solutions) : ~solvedIndices[b]}
KeyAggregate ==
    LET scored == Scored(guesses, solutions, Unsolved)
        occurrences == [letter \in Letters |-> KeyOccurrences(letter, guesses, scored)]
    IN [letter \in {l \in Letters : occurrences[l] # {}} |->
           HighestPriority(occurrences[letter])]
Reverse(s) == [i \in 1..Len(s) |-> s[Len(s) + 1 - i]]
IsUnsolvedBoard(sol) == \E b \in Unsolved : solutions[b] = sol

\* C19: the keyboard aggregate maps exactly the letters that occur in a guess
\* scored against an unsolved board, each to the highest-priority status of
\* its occurrences; folding the guesses and the boards in the opposite
\* order gives the same map, and so does leaving the solved boards out
C19_KeyboardAggregate ==
    LET aggregate == KeyAggregate
    IN /\ getKeyStatuses = aggregate
       /\ getKeyStatusesOf(Reverse(guesses), Reverse(solutions), Reverse(solvedIndices))
             = aggregate
       /\ getKeyStatusesOf(guesses, SelectSeq(solutions, IsUnsolvedBoard),
                           Fill(Cardinality(Unsolved), FALSE)) = aggregate
       /\ keyStatuses \in {EmptyMap, aggregate}

\* rendered with a board solved: a letter that is correct on the solved
\* board shows the status it has on the unsolved one, and another letter has
\* occurrences of all three statuses on the unsolved board
C19_Witness ==
    LET onSolved == Scored(guesses, solutions, (1..Len(solutions)) \ Unsolved)
        onUnsolved == Scored(guesses, solutions, Unsolved)
    IN /\ keyStatuses # EmptyMap
       /\ \E letter \in DOMAIN keyStatuses :
             /\ keyStatuses[letter] = "present"
             /\ "correct" \in KeyOccurrences(letter, guesses, onSolved)
       /\ \E letter \in DOMAIN keyStatuses :
             /\ keyStatuses[letter] = "correct"
             /\ KeyOccurrences(letter, guesses, onUnsolved)
                   = {"correct", "present", "absent"}

\* C20: Backspace is handled while the level is played.  On a filled slot it
\* clears the slot and the cursor stays; on an empty slot the cursor moves
\* to max(0, Cursor - 1) and that slot is cleared, which at slot 0 changes
\* nothing.  The revealed hints, the guesses, the score and the status are
\* never changed
C20_Backspace ==
    /\ [](gameStatus = "playing" => ENABLED Backspace)
    /\ [][Backspace =>
            /\ IF At(currentGuess, activeTileIndex) # ""
               THEN /\ activeTileIndex' = activeTileIndex
                    /\ currentGuess' = [currentGuess EXCEPT ![activeTileIndex + 1] = ""]
               ELSE /\ activeTileIndex' = Max(0, activeTileIndex - 1)
                    /\ currentGuess' = [currentGuess EXCEPT ![activeTileIndex' + 1] = ""]
            /\ (activeTileIndex = 0 /\ At(currentGuess, 0) = "") =>
                   UNCHANGED <<currentGuess, activeTileIndex>>
            /\ activeTileIndex' >= 0
            /\ UNCHANGED <<revealedHints, guesses, score, gameStatus>>]_vars

\* the first slot, which a hint had revealed, was cleared: the second slot
\* is still filled and the hint still recorded
C20_Witness ==
    /\ gameStatus = "playing"
    /\ activeTileIndex = 0
    /\ At(currentGuess, 0) = ""
    /\ At(currentGuess, 1) # ""
    /\ 0 \in DOMAIN revealedHints

\* the slot a granted hint fills: the one slot of the buffer the step changes
RevealedSlot == CHOOSE i \in 0..(WORD_LENGTH - 1) : At(currentGuess', i) # At(currentGuess, i)
\* the lowest index from the cursor on whose slot is empty after the step,
\* the last index of the row if there is none
NextEmptySlot ==
    IF \E i \in activeTileIndex..(WORD_LENGTH - 1) : At(currentGuess', i) = ""
    THEN CHOOSE i \in activeTileIndex..(WORD_LENGTH - 1) :
            /\ At(currentGuess', i) = ""
            /\ \A j \in activeTileIndex..(i - 1) : At(currentGuess', j) # ""
    ELSE WORD_LENGTH - 1

\* C21: a granted hint that fills the cursor's slot moves the cursor to the
\* next slot that is empty after the reveal, or to the last slot; a hint
\* that fills another slot leaves the cursor where it is
C21_HintAdvancesCursor ==
    [][HintGranted =>
          activeTileIndex' = IF RevealedSlot = activeTileIndex
                             THEN NextEmptySlot ELSE activeTileIndex]_vars

\* C22: the score is never negative: a hint is granted only when the score
\* covers its cost, and a submission never lowers the score
C22_ScoreNeverNegative ==
    /\ [](score >= 0)
    /\ [][HintGranted => score >= hintCost /\ score' = score - hintCost]_vars
    /\ [][Enter => score' >= score]_vars
\* hints have brought the score below the price of the next one
C22_Witness ==
    /\ gameStatus = "playing"
    /\ hintsGranted > 0
    /\ score < hintCost
    /\ ENABLED HintInsufficient

\* the boards a step turns from unsolved to solved
NewlySolved == {i \in 1..Len(solvedIndices) : ~solvedIndices[i] /\ solvedIndices'[i]}
PairwiseDistinct(s) == \A i, j \in 1..Len(s) : i # j => s[i] # s[j]

\* C23: the solutions of a level are pairwise distinct, so a submission
\* solves at most one board and earns at most 100 points, and a level is
\* won with no fewer submissions than it has boards
C23_OneBoardPerSubmission ==
    /\ [](PairwiseDistinct(solutions))
    /\ [][Enter => /\ Cardinality(NewlySolved) <= 1
                   /\ score' - score <= 100
                   /\ (NewlySolved = {} => score' = score)]_vars
    /\ [](gameStatus = "won" => Len(guesses) >= numWords(level))
\* a first submission on a level of two boards has solved one of them
C23_Witness ==
    /\ level >= 1
    /\ Len(guesses) = 1
    /\ Cardinality({i \in 1..Len(solvedIndices) : solvedIndices[i]}) = 1
    /\ \E i \in 1..Len(solutions) : ~solvedIndices[i] /\ solutions[i] # guesses[1]

\* the lowest board not yet solved, 0-based
IsLowestUnsolved(i) ==
    /\ i \in 0..(Len(solvedIndices) - 1)
    /\ ~At(solvedIndices, i)
    /\ \A j \in 0..(i - 1) : At(solvedIndices, j)

\* C24: a set hint target is the lowest unsolved board and there are no
\* revealed slots without a target, so a hint request retargets only from
\* an unset target with no revealed slots
C24_HintTarget ==
    /\ [](hintedSolutionIndex # Null => IsLowestUnsolved(hintedSolutionIndex))
    /\ [](hintedSolutionIndex = Null => revealedHints = EmptyMap)
    /\ [][(HintNoSlot \/ HintGranted) /\ Retarget =>
             hintedSolutionIndex = Null /\ revealedHints = EmptyMap]_vars
\* the first board is solved and a hint has targeted the second
C24_Witness ==
    /\ gameStatus = "playing"
    /\ hintedSolutionIndex = 1
    /\ At(solvedIndices, 0)
    /\ revealedHints # EmptyMap

====
